---- MODULE Spec2Model ----
(***************************************************************************)
(* The filesystem-to-topic mirror of src/missing-topic-handler.ts: the     *)
(* tracked set kept by mapTopicPath's notification listener, the watcher   *)
(* handlers and setTopic/unsetTopic of CDNHandler, and onMissingTopic.     *)
(* The messaging server, the filesystem and the subscribers are the        *)
(* environment.  Every callback turn (a handler up to its first await, or  *)
(* the continuation after an await) is one atomic action.                  *)
(***************************************************************************)
EXTENDS Integers, Sequences, FiniteSets, TLC

----------------------------------------------------------------------------
(* Bounds of the model *)

\* environment events (file writes/removals, out-of-band topic changes,
\* subscriber requests) in one behaviour
MaxEnv == 3

----------------------------------------------------------------------------
(* Paths, file contents, JSON values *)

PathA == <<"cdn", "a.json">>
PathB == <<"cdn", "b.json">>
PathX == <<"other", "c.json">>
Paths == {PathA, PathB, PathX}

\* main: CDNHandler.build(session, 'cdn')
pathPrefix == "cdn"

NoFile == "<no file>"
Text1 == "{\"x\":1}"
Text2 == "{ \"x\": 2 }"
TextBad == "{\"x\":"
Contents == {Text1, Text2, TextBad}

NoValue == <<>>
Value1 == <<"x", 1>>
Value2 == <<"x", 2>>

\* errno of "no such file or directory", as tested by setTopic's catch
ENOENT == -2

\* readFileSync(path).toString(): the text, or an error carrying errno
readFileSync(fs, path) ==
    IF fs[path] = NoFile
    THEN [threw |-> TRUE, errno |-> ENOENT, text |-> ""]
    ELSE [threw |-> FALSE, errno |-> 0, text |-> fs[path]]

\* JSON.parse on the texts of the model: the value, or a SyntaxError (which
\* carries no errno)
JSONParse(text) ==
    CASE text = Text1 -> [threw |-> FALSE, errno |-> 0, value |-> Value1]
      [] text = Text2 -> [threw |-> FALSE, errno |-> 0, value |-> Value2]
      [] OTHER -> [threw |-> TRUE, errno |-> 0, value |-> NoValue]

\* a topic specification without the removal property
defaultTopicSpecNoRemoval ==
    [type |-> "JSON", REMOVAL |-> ""]

\* CDNHandler.defaultTopicSpec
defaultTopicSpec ==
    [type |-> "JSON", REMOVAL |-> "when subscriptions < 1 for 1m"]

NoSpec == [type |-> "", REMOVAL |-> ""]

\* a topic somebody else created
foreignSpec == [type |-> "JSON", REMOVAL |-> ""]

NoTopic == [exists |-> FALSE, value |-> NoValue, spec |-> NoSpec]

\* mapTopicPath: const selector = `?${path}//`
selector(path) == [prefix |-> path, scope |-> "//"]

\* a selector that selects every topic
SelectorMatchesAll(sel, p) == TRUE

\* the paths a selector ?<prefix>// selects: the prefix and its descendants
SelectorMatches(sel, p) ==
    /\ Len(p) >= 1
    /\ p[1] = sel.prefix
    /\ (sel.scope = "//" \/ Len(p) = 1)

\* watch(pathPrefix): the watcher reports the files below pathPrefix
Watched(prefix, p) == Len(p) >= 1 /\ p[1] = prefix

\* addMissingTopicHandler(cdnHandler.pathPrefix, ...): the branch the handler
\* is registered for
HandlerCovers(prefix, p) == Len(p) >= 1 /\ p[1] = prefix

----------------------------------------------------------------------------
VARIABLES
    pc,          \* position of main: "addListener", "select", "build",
                 \* "main", "running"
    files,       \* the filesystem: path -> text or NoFile
    srvTopics,   \* the server's topic tree: path -> topic
    selActive,   \* the server has registered the selector
    mtActive,    \* the server has registered the missing-topic handler
    topics,      \* the tracked set (result of mapTopicPath, CDNHandler.topics)
    watching,    \* the filesystem watcher exists
    fsEvents,    \* watcher events not yet dispatched, in order
    notifs,      \* topic notifications not yet dispatched, in order
    mtQueue,     \* missing-topic requests not yet dispatched, in order
    mtOpen,      \* requests given to onMissingTopic and not yet proceeded
    calls,       \* server calls in flight
    nextId,      \* number of server calls issued so far
    unhandled,   \* handlers whose promise rejected with nobody catching it
    envSteps,    \* environment events so far
    batch,       \* the topics the initial SELECTED batch reports, and how many
                 \* of its notifications are still undelivered
    row,         \* progress of "unlink p; its removal call completes, resolved
                 \* or rejected; unlink p"
    last,        \* the last callback turn of the mirror
    unlinked,    \* the paths whose unlink event was handled, no change event
                 \* or missing-topic request for them having been handled since
    listener     \* the session-property listener (a program of its own)

vars == <<pc, files, srvTopics, selActive, mtActive, topics, watching,
          fsEvents, notifs, mtQueue, mtOpen, calls, nextId, unhandled,
          envSteps, batch, row, last, unlinked, listener>>

\* A callback turn: the handler that ran (op), the path it was given, the
\* notification type or call outcome (type), the handler that issued the
\* completed call (origin), whether the path was tracked when the turn began
\* (was), whether the turn read the file (read), the id of the call it issued
\* or completed (call, 0 for none), the highest level it logged at through
\* a logger (log; console output is not recorded), and whether
\* it invoked notification.proceed() (proceed).
NoTurn == [op |-> "none", path |-> <<>>, type |-> "", origin |-> "",
           was |-> FALSE, read |-> FALSE, call |-> 0, log |-> "none",
           proceed |-> FALSE]

Turn(op, path, type, origin, was, read, call, log, proceed) ==
    [op |-> op, path |-> path, type |-> type, origin |-> origin, was |-> was,
     read |-> read, call |-> call, log |-> log, proceed |-> proceed]

NoRow == [stage |-> 0, path |-> <<>>, call |-> 0]

----------------------------------------------------------------------------
(* The session-property listener (session-property-listener.ts): MyListener *)
(* is registered for $Principal and $Roles with role "TRADER" and selector *)
(* "cdn/trader-news.json".                                                 *)

Sessions == {"s1", "s2"}

\* a property the session does not have
Undefined == "<undefined>"

RolesTrader == "\"TRADER\""
RolesAdmin == "\"ADMIN\""
RolesBoth == "\"ADMIN\",\"TRADER\""
RoleStrings == {Undefined, "", RolesTrader, RolesAdmin, RolesBoth}
Principals == {Undefined, "", "alice"}

SessionProperties == [Roles : RoleStrings, Principal : Principals]

\* main: new MyListener(session, "TRADER", "cdn/trader-news.json")
listenerRole == "TRADER"
listenerSelector == <<"cdn", "trader-news.json">>

\* diffusion.stringToRoles on the role strings of the model
stringToRoles(str) ==
    CASE str = RolesTrader -> {"TRADER"}
      [] str = RolesAdmin -> {"ADMIN"}
      [] str = RolesBoth -> {"ADMIN", "TRADER"}
      [] OTHER -> {}

\* whether a property value is truthy: neither undefined nor the empty string
Truthy(v) == v # Undefined /\ v # ""

\* onSessionOpen that does not ask for a principal
onSessionOpenSubscribesNoPrincipal(role, properties) ==
    /\ Truthy(properties.Roles)
    /\ role \in stringToRoles(properties.Roles)

\* onSessionOpen: whether it calls session.clients.subscribe
onSessionOpenSubscribes(role, properties) ==
    IF ~(Truthy(properties.Roles) /\ Truthy(properties.Principal))
    THEN FALSE
    ELSE role \in stringToRoles(properties.Roles)

NoProperties == [Roles |-> Undefined, Principal |-> Undefined]

NoCallback == [op |-> "none", session |-> "", subscribed |-> FALSE,
               log |-> "none"]

\* the listener awaits its registration; no session has been reported and no
\* subscribe call issued (subs[s]: the selectors of the subscribe calls for s)
ListenerStart ==
    [state |-> "registering",
     sess |-> [s \in Sessions |-> [st |-> "unseen", props |-> NoProperties]],
     subs |-> [s \in Sessions |-> <<>>],
     last |-> NoCallback]

mirrorVars == <<pc, files, srvTopics, selActive, mtActive, topics, watching,
                fsEvents, notifs, mtQueue, mtOpen, calls, nextId, unhandled,
                envSteps, batch, row, last, unlinked>>

\* onActive
OnActive ==
    /\ listener.state = "registering"
    /\ listener' = [listener EXCEPT
                      !.state = "active",
                      !.last = [op |-> "active", session |-> "",
                                subscribed |-> FALSE, log |-> "info"]]
    /\ UNCHANGED mirrorVars

\* onSessionOpen(sessionID, properties)
OnSessionOpen(s, properties) ==
    /\ listener.state = "active"
    /\ listener.sess[s].st = "unseen"
    /\ LET sub == onSessionOpenSubscribes(listenerRole, properties)
       IN  listener' = [listener EXCEPT
                          !.sess[s] = [st |-> "open", props |-> properties],
                          !.subs[s] = IF sub THEN Append(@, listenerSelector)
                                      ELSE @,
                          !.last = [op |-> "open", session |-> s,
                                    subscribed |-> sub, log |-> "info"]]
    /\ UNCHANGED mirrorVars

\* onSessionEvent(sessionID, type, properties, previous): logs only
OnSessionEvent(s, properties) ==
    /\ listener.state = "active"
    /\ listener.sess[s].st = "open"
    /\ listener.sess[s].props # properties
    /\ listener' = [listener EXCEPT
                      !.sess[s].props = properties,
                      !.last = [op |-> "event", session |-> s,
                                subscribed |-> FALSE, log |-> "info"]]
    /\ UNCHANGED mirrorVars

\* onSessionClose(sessionID, properties, reason): logs only
OnSessionClose(s) ==
    /\ listener.state = "active"
    /\ listener.sess[s].st = "open"
    /\ listener' = [listener EXCEPT
                      !.sess[s].st = "closed",
                      !.last = [op |-> "close", session |-> s,
                                subscribed |-> FALSE, log |-> "info"]]
    /\ UNCHANGED mirrorVars

\* onClose: logs only
OnListenerClose ==
    /\ listener.state = "active"
    /\ listener' = [listener EXCEPT
                      !.state = "closed",
                      !.last = [op |-> "listenerClose", session |-> "",
                                subscribed |-> FALSE, log |-> "info"]]
    /\ UNCHANGED mirrorVars

\* onError: logs only
OnListenerError ==
    /\ listener.state \in {"registering", "active"}
    /\ listener' = [listener EXCEPT
                      !.state = "closed",
                      !.last = [op |-> "listenerError", session |-> "",
                                subscribed |-> FALSE, log |-> "error"]]
    /\ UNCHANGED mirrorVars

ListenerNext ==
    \/ OnActive
    \/ \E s \in Sessions, properties \in SessionProperties :
         OnSessionOpen(s, properties)
    \/ \E s \in Sessions, properties \in SessionProperties :
         OnSessionEvent(s, properties)
    \/ \E s \in Sessions : OnSessionClose(s)
    \/ OnListenerClose
    \/ OnListenerError

----------------------------------------------------------------------------
(* Initial state: the session is connected and main awaits addListener.   *)
(* The directory holds a.json and perhaps b.json, and topic cdn/a.json is  *)
(* left on the server by an earlier run; the environment's actions lead to *)
(* the other filesystems and topic trees.                                  *)

InitFiles ==
    {f \in [Paths -> {NoFile, Text1}] : f[PathA] = Text1 /\ f[PathX] = Text1}

InitTopics ==
    [p \in Paths |-> IF p = PathA
                     THEN [exists |-> TRUE, value |-> Value1,
                           spec |-> defaultTopicSpec]
                     ELSE NoTopic]

Init ==
    /\ pc = "addListener"
    /\ files \in InitFiles
    /\ srvTopics = InitTopics
    /\ selActive = FALSE
    /\ mtActive = FALSE
    /\ topics = {}
    /\ watching = FALSE
    /\ fsEvents = <<>>
    /\ notifs = <<>>
    /\ mtQueue = <<>>
    /\ mtOpen = 0
    /\ calls = {}
    /\ nextId = 0
    /\ unhandled = {}
    /\ envSteps = 0
    /\ batch = [reported |-> {}, left |-> 0]
    /\ row = NoRow
    /\ last = NoTurn
    /\ unlinked = {}
    /\ listener = ListenerStart

----------------------------------------------------------------------------
(* The code of the mirror *)

\* onTopicNotification without its SELECTED case
onTopicNotificationNoSelected(result, path, type) ==
    CASE type = "ADDED" -> result \cup {path}
      [] type = "REMOVED" -> result \ {path}
      [] type = "DESELECTED" -> result \ {path}
      [] OTHER -> result

\* onTopicNotification: the tracked set after a notification
onTopicNotification(result, path, type) ==
    CASE type = "ADDED" -> result \cup {path}
      [] type = "REMOVED" -> result \ {path}
      [] type = "SELECTED" -> result \cup {path}
      [] type = "DESELECTED" -> result \ {path}
      [] OTHER -> result

\* the level onTopicNotification logs at
notificationLog(type) ==
    CASE type = "ADDED" -> "info"
      [] type = "REMOVED" -> "warn"
      [] type = "SELECTED" -> "info"
      [] type = "DESELECTED" -> "warn"
      [] OTHER -> "none"

\* the watcher's unlink handler: if (this.topics.has(path))
unlinkActs(ts, path) == path \in ts

\* the change handler without its membership test
changeActsAlways(ts, path) == TRUE

\* the watcher's change handler: if (this.topics.has(path))
changeActs(ts, path) == path \in ts

\* the catch taking every error for a missing file
catchLogAlwaysWarn(errno) == "warn"

\* setTopic's catch: errno -2 is a warning, anything else an error
catchLog(errno) == IF errno = ENOENT THEN "warn" ELSE "error"

\* setTopicBegin with the errors of the read and the parse ignored: the set
\* call is issued all the same
setTopicBeginIgnoringErrors(fs, path) ==
    LET r == readFileSync(fs, path)
        j == JSONParse(r.text)
    IN  [issue |-> TRUE, value |-> j.value, log |-> "none"]

\* setTopic up to its await: read the file, parse it, and either issue the
\* set call with the parsed content or log what the catch logs
setTopicBegin(fs, path) ==
    LET r == readFileSync(fs, path)
        j == JSONParse(r.text)
    IN  IF r.threw
        THEN [issue |-> FALSE, value |-> NoValue, log |-> catchLog(r.errno)]
        ELSE IF j.threw
        THEN [issue |-> FALSE, value |-> NoValue, log |-> catchLog(j.errno)]
        ELSE [issue |-> TRUE, value |-> j.value, log |-> "none"]

\* setTopicEnd without this.topics.add(path)
setTopicEndKeepsSet(ts, path, ok) == ts

\* setTopic after its await: this.topics.add(path) when the call resolved,
\* the catch when it rejected
setTopicEnd(ts, path, ok) == IF ok THEN ts \cup {path} ELSE ts

\* unsetTopic deleting the path before its call
unsetTopicBeginOptimistic(ts, path) == ts \ {path}

\* unsetTopic up to its await: the tracked set is not touched
unsetTopicBegin(ts, path) == ts

\* unsetTopic after its await: this.topics.delete(path) when the call
\* resolved; a rejection skips it
unsetTopicEnd(ts, path, ok) == IF ok THEN ts \ {path} ELSE ts

\* proceed() only once a set call was issued
onMissingTopicProceedsIfIssued(outcome) == outcome.issue

\* onMissingTopic: the highest level the turn logs at; rootLogger.info comes
\* first, setTopic's catch may add a warning or an error
onMissingTopicLog(outcome) ==
    IF outcome.log = "none" THEN "info" ELSE outcome.log

\* proceed() left to the completion of the set call, when one was issued
onMissingTopicProceedsUnlessIssued(outcome) == ~outcome.issue

\* onMissingTopic: notification.proceed() follows handleMissingTopic
\* whatever setTopic did
onMissingTopicProceeds(outcome) == TRUE

\* the call session.topicUpdate.set(path, json, content, defaultTopicSpec)
SetCall(id, path, value, origin) ==
    [id |-> id, op |-> "set", path |-> path, value |-> value,
     spec |-> defaultTopicSpec, origin |-> origin, st |-> "sent"]

\* the call session.topics.remove(path)
RemoveCall(id, path, origin) ==
    [id |-> id, op |-> "remove", path |-> path, value |-> NoValue,
     spec |-> NoSpec, origin |-> origin, st |-> "sent"]

----------------------------------------------------------------------------
(* Start-up: main, CDNHandler.build, mapTopicPath *)

\* the server acknowledges addListener; mapTopicPath sends the selector
AddListenerAck ==
    /\ pc = "addListener"
    /\ pc' = "select"
    /\ UNCHANGED <<files, srvTopics, selActive, mtActive, topics, watching,
                   fsEvents, notifs, mtQueue, mtOpen, calls, nextId,
                   unhandled, envSteps, batch, row, last>>
    /\ UNCHANGED <<unlinked, listener>>

\* the sequences that list the elements of a set once each
Orders(S) ==
    {q \in [1..Cardinality(S) -> S] : \A i, j \in 1..Cardinality(S) :
                                          i # j => q[i] # q[j]}

\* the server registers the selector and reports every matching topic that
\* exists as SELECTED
ServerSelect ==
    /\ pc = "select"
    /\ ~selActive
    /\ selActive' = TRUE
    /\ LET S == {p \in Paths : /\ srvTopics[p].exists
                                /\ SelectorMatches(selector(pathPrefix), p)}
       IN  /\ \E q \in Orders(S) :
                notifs' = notifs \o [i \in 1..Cardinality(S) |->
                                        [path |-> q[i], type |-> "SELECTED"]]
           /\ batch' = [reported |-> S, left |-> Cardinality(S)]
    /\ UNCHANGED <<pc, files, srvTopics, mtActive, topics, watching, fsEvents,
                   mtQueue, mtOpen, calls, nextId, unhandled, envSteps, row,
                   last>>
    /\ UNCHANGED <<unlinked, listener>>

\* mapTopicPath returning without the selector being registered
SelectAckEarly ==
    /\ pc = "select"
    /\ pc' = "build"
    /\ UNCHANGED <<files, srvTopics, selActive, mtActive, topics, watching,
                   fsEvents, notifs, mtQueue, mtOpen, calls, nextId,
                   unhandled, envSteps, batch, row, last>>
    /\ UNCHANGED <<unlinked, listener>>

\* the selector registration is acknowledged: mapTopicPath resumes after
\* await registration.select(selector) and returns the set
SelectAck ==
    /\ pc = "select"
    /\ selActive
    /\ pc' = "build"
    /\ UNCHANGED <<files, srvTopics, selActive, mtActive, topics, watching,
                   fsEvents, notifs, mtQueue, mtOpen, calls, nextId,
                   unhandled, envSteps, batch, row, last>>
    /\ UNCHANGED <<unlinked, listener>>

\* build resumes after await mapTopicPath(...): new CDNHandler, whose
\* constructor creates the watcher with its two handlers
BuildResume ==
    /\ pc = "build"
    /\ pc' = "main"
    /\ watching' = TRUE
    /\ UNCHANGED <<files, srvTopics, selActive, mtActive, topics, fsEvents,
                   notifs, mtQueue, mtOpen, calls, nextId, unhandled,
                   envSteps, batch, row, last>>
    /\ UNCHANGED <<unlinked, listener>>

\* main resumes after await CDNHandler.build(...): it sends the
\* registration of the missing-topic handler
MainResume ==
    /\ pc = "main"
    /\ pc' = "running"
    /\ UNCHANGED <<files, srvTopics, selActive, mtActive, topics, watching,
                   fsEvents, notifs, mtQueue, mtOpen, calls, nextId,
                   unhandled, envSteps, batch, row, last>>
    /\ UNCHANGED <<unlinked, listener>>

\* the server registers the missing-topic handler
ServerRegisterHandler ==
    /\ pc = "running"
    /\ ~mtActive
    /\ mtActive' = TRUE
    /\ UNCHANGED <<pc, files, srvTopics, selActive, topics, watching,
                   fsEvents, notifs, mtQueue, mtOpen, calls, nextId,
                   unhandled, envSteps, batch, row, last>>
    /\ UNCHANGED <<unlinked, listener>>

----------------------------------------------------------------------------
(* The environment: the filesystem, other users of the server, subscribers *)

FsEvent(kind, p) == [kind |-> kind, path |-> p]

\* the watcher reports from its own I/O callbacks, which cannot run before
\* the start-up chain of main (build, then addMissingTopicHandler) has
\* ended: a file changed earlier is found as it is by the watcher's first
\* scan and reported, if at all, as 'add'
WatcherReports == watching /\ pc = "running"

\* a file is written: the watcher reports a change of a file it already
\* knew (a new file is reported as 'add', which has no handler)
WriteFile(p, text) ==
    /\ envSteps < MaxEnv
    /\ envSteps' = envSteps + 1
    /\ files' = [files EXCEPT ![p] = text]
    /\ fsEvents' = IF /\ WatcherReports
                      /\ Watched(pathPrefix, p)
                      /\ files[p] # NoFile
                   THEN Append(fsEvents, FsEvent("change", p))
                   ELSE fsEvents
    /\ UNCHANGED <<pc, srvTopics, selActive, mtActive, topics, watching,
                   notifs, mtQueue, mtOpen, calls, nextId, unhandled, batch,
                   row, last>>
    /\ UNCHANGED <<unlinked, listener>>

\* a file is removed: the watcher reports unlink
RemoveFile(p) ==
    /\ envSteps < MaxEnv
    /\ files[p] # NoFile
    /\ envSteps' = envSteps + 1
    /\ files' = [files EXCEPT ![p] = NoFile]
    /\ fsEvents' = IF WatcherReports /\ Watched(pathPrefix, p)
                   THEN Append(fsEvents, FsEvent("unlink", p))
                   ELSE fsEvents
    /\ UNCHANGED <<pc, srvTopics, selActive, mtActive, topics, watching,
                   notifs, mtQueue, mtOpen, calls, nextId, unhandled, batch,
                   row, last>>
    /\ UNCHANGED <<unlinked, listener>>

\* the notifications queue after the server reports `type` for p: only while
\* the selector is registered, and only for the paths it selects
Notify(q, p, type) ==
    IF selActive /\ SelectorMatches(selector(pathPrefix), p)
    THEN Append(q, [path |-> p, type |-> type])
    ELSE q

\* somebody else creates a topic
TopicAdded(p) ==
    /\ envSteps < MaxEnv
    /\ ~srvTopics[p].exists
    /\ envSteps' = envSteps + 1
    /\ srvTopics' = [srvTopics EXCEPT ![p] =
                        [exists |-> TRUE, value |-> NoValue,
                         spec |-> foreignSpec]]
    /\ notifs' = Notify(notifs, p, "ADDED")
    /\ UNCHANGED <<pc, files, selActive, mtActive, topics, watching, fsEvents,
                   mtQueue, mtOpen, calls, nextId, unhandled, batch, row,
                   last>>
    /\ UNCHANGED <<unlinked, listener>>

\* a topic is removed out of band: by somebody else, or by the server under
\* the topic's removal policy
TopicRemoved(p) ==
    /\ envSteps < MaxEnv
    /\ srvTopics[p].exists
    /\ envSteps' = envSteps + 1
    /\ srvTopics' = [srvTopics EXCEPT ![p] = NoTopic]
    /\ notifs' = Notify(notifs, p, "REMOVED")
    /\ UNCHANGED <<pc, files, selActive, mtActive, topics, watching, fsEvents,
                   mtQueue, mtOpen, calls, nextId, unhandled, batch, row,
                   last>>
    /\ UNCHANGED <<unlinked, listener>>

\* the server reports an existing topic as no longer selected
TopicDeselected(p) ==
    /\ envSteps < MaxEnv
    /\ srvTopics[p].exists
    /\ selActive
    /\ SelectorMatches(selector(pathPrefix), p)
    /\ envSteps' = envSteps + 1
    /\ notifs' = Notify(notifs, p, "DESELECTED")
    /\ UNCHANGED <<pc, files, srvTopics, selActive, mtActive, topics,
                   watching, fsEvents, mtQueue, mtOpen, calls, nextId,
                   unhandled, batch, row, last>>
    /\ UNCHANGED <<unlinked, listener>>

\* a subscriber asks for a topic that does not exist: the server passes the
\* request to the handler registered for the branch, if there is one
SubscriberRequest(p) ==
    /\ envSteps < MaxEnv
    /\ ~srvTopics[p].exists
    /\ envSteps' = envSteps + 1
    /\ mtQueue' = IF mtActive /\ HandlerCovers(pathPrefix, p)
                  THEN Append(mtQueue, p)
                  ELSE mtQueue
    /\ UNCHANGED <<pc, files, srvTopics, selActive, mtActive, topics,
                   watching, fsEvents, notifs, mtOpen, calls, nextId,
                   unhandled, batch, row, last>>
    /\ UNCHANGED <<unlinked, listener>>

----------------------------------------------------------------------------
(* The callbacks of the mirror *)

\* an unlink handler that waits for the calls in flight
OnUnlinkAfterCalls ==
    /\ \A c \in calls : c.st # "sent"
    /\ fsEvents # <<>>
    /\ Head(fsEvents).kind = "unlink"
    /\ LET p == Head(fsEvents).path
           acts == unlinkActs(topics, p)
           id == IF acts THEN nextId + 1 ELSE 0
       IN  /\ fsEvents' = Tail(fsEvents)
           /\ calls' = IF acts THEN calls \cup {RemoveCall(id, p, "unlink")}
                       ELSE calls
           /\ nextId' = IF acts THEN id ELSE nextId
           /\ topics' = IF acts THEN unsetTopicBegin(topics, p) ELSE topics
           /\ last' = Turn("unlink", p, "", "", p \in topics, FALSE, id,
                           "none", FALSE)
           /\ row' = IF row.stage = 2 /\ row.path = p
                     THEN [stage |-> 3, path |-> p, call |-> id]
                     ELSE IF acts
                     THEN [stage |-> 1, path |-> p, call |-> id]
                     ELSE NoRow
    /\ UNCHANGED <<pc, files, srvTopics, selActive, mtActive, watching,
                   notifs, mtQueue, mtOpen, unhandled, envSteps, batch>>
    /\ unlinked' = unlinked \cup {Head(fsEvents).path}
    /\ UNCHANGED listener

\* watcher.on('unlink'): unsetTopic runs up to its await and the handler
\* returns without awaiting it
OnUnlink ==
    /\ fsEvents # <<>>
    /\ Head(fsEvents).kind = "unlink"
    /\ LET p == Head(fsEvents).path
           acts == unlinkActs(topics, p)
           id == IF acts THEN nextId + 1 ELSE 0
       IN  /\ fsEvents' = Tail(fsEvents)
           /\ calls' = IF acts THEN calls \cup {RemoveCall(id, p, "unlink")}
                       ELSE calls
           /\ nextId' = IF acts THEN id ELSE nextId
           /\ topics' = IF acts THEN unsetTopicBegin(topics, p) ELSE topics
           /\ last' = Turn("unlink", p, "", "", p \in topics, FALSE, id,
                           "none", FALSE)
           /\ row' = IF row.stage = 2 /\ row.path = p
                     THEN [stage |-> 3, path |-> p, call |-> id]
                     ELSE IF acts
                     THEN [stage |-> 1, path |-> p, call |-> id]
                     ELSE NoRow
    /\ UNCHANGED <<pc, files, srvTopics, selActive, mtActive, watching,
                   notifs, mtQueue, mtOpen, unhandled, envSteps, batch>>
    /\ unlinked' = unlinked \cup {Head(fsEvents).path}
    /\ UNCHANGED listener

\* watcher.on('change'): setTopic runs up to its await
OnChange ==
    /\ fsEvents # <<>>
    /\ Head(fsEvents).kind = "change"
    /\ LET p == Head(fsEvents).path
           acts == changeActs(topics, p)
           o == setTopicBegin(files, p)
           issue == acts /\ o.issue
           id == IF issue THEN nextId + 1 ELSE 0
       IN  /\ fsEvents' = Tail(fsEvents)
           /\ calls' = IF issue
                       THEN calls \cup {SetCall(id, p, o.value, "change")}
                       ELSE calls
           /\ nextId' = IF issue THEN id ELSE nextId
           /\ last' = Turn("change", p, "", "", p \in topics, acts, id,
                           IF acts THEN o.log ELSE "none", FALSE)
    /\ row' = NoRow
    /\ UNCHANGED <<pc, files, srvTopics, selActive, mtActive, topics,
                   watching, notifs, mtQueue, mtOpen, unhandled, envSteps,
                   batch>>
    /\ unlinked' = unlinked \ {Head(fsEvents).path}
    /\ UNCHANGED listener

\* the listener's onTopicNotification
OnTopicNotification ==
    /\ notifs # <<>>
    /\ LET n == Head(notifs)
       IN  /\ notifs' = Tail(notifs)
           /\ topics' = onTopicNotification(topics, n.path, n.type)
           /\ batch' = IF n.type = "SELECTED"
                       THEN [batch EXCEPT !.left = @ - 1]
                       ELSE batch
           /\ last' = Turn("notify", n.path, n.type, "", n.path \in topics,
                           FALSE, 0, notificationLog(n.type), FALSE)
    /\ row' = NoRow
    /\ UNCHANGED <<pc, files, srvTopics, selActive, mtActive, watching,
                   fsEvents, mtQueue, mtOpen, calls, nextId, unhandled,
                   envSteps>>
    /\ UNCHANGED <<unlinked, listener>>

\* onMissingTopic: handleMissingTopic starts setTopic without awaiting it,
\* then notification.proceed()
OnMissingTopic ==
    /\ mtQueue # <<>>
    /\ LET p == Head(mtQueue)
           o == setTopicBegin(files, p)
           id == IF o.issue THEN nextId + 1 ELSE 0
           proceeds == onMissingTopicProceeds(o)
       IN  /\ mtQueue' = Tail(mtQueue)
           /\ calls' = IF o.issue
                       THEN calls \cup {SetCall(id, p, o.value, "missing")}
                       ELSE calls
           /\ nextId' = IF o.issue THEN id ELSE nextId
           /\ mtOpen' = IF proceeds THEN mtOpen ELSE mtOpen + 1
           /\ last' = Turn("missing", p, "", "", p \in topics, TRUE, id,
                           onMissingTopicLog(o), proceeds)
    /\ row' = NoRow
    /\ UNCHANGED <<pc, files, srvTopics, selActive, mtActive, topics,
                   watching, fsEvents, notifs, unhandled, envSteps, batch>>
    /\ unlinked' = unlinked \ {Head(mtQueue)}
    /\ UNCHANGED listener

\* setTopic resumes after await this.session.topicUpdate.set(...)
SetTopicResume(c) ==
    /\ c \in calls
    /\ c.op = "set"
    /\ c.st # "sent"
    /\ calls' = calls \ {c}
    /\ topics' = setTopicEnd(topics, c.path, c.st = "ok")
    /\ last' = Turn("setDone", c.path, c.st, c.origin, c.path \in topics,
                    FALSE, c.id, IF c.st = "ok" THEN "none" ELSE catchLog(0),
                    FALSE)
    /\ row' = NoRow
    /\ UNCHANGED <<pc, files, srvTopics, selActive, mtActive, watching,
                   fsEvents, notifs, mtQueue, mtOpen, nextId, unhandled,
                   envSteps, batch>>
    /\ UNCHANGED <<unlinked, listener>>

\* unsetTopic resumes after await this.session.topics.remove(path); nobody
\* awaits or catches the promise of unsetTopic
UnsetTopicResume(c) ==
    /\ c \in calls
    /\ c.op = "remove"
    /\ c.st # "sent"
    /\ calls' = calls \ {c}
    /\ topics' = unsetTopicEnd(topics, c.path, c.st = "ok")
    /\ unhandled' = IF c.st = "ok" THEN unhandled
                    ELSE unhandled \cup {c.origin}
    /\ last' = Turn("removeDone", c.path, c.st, c.origin, c.path \in topics,
                    FALSE, c.id, "none", FALSE)
    /\ row' = IF row.stage = 1 /\ row.call = c.id
              THEN [row EXCEPT !.stage = 2]
              ELSE NoRow
    /\ UNCHANGED <<pc, files, srvTopics, selActive, mtActive, watching,
                   fsEvents, notifs, mtQueue, mtOpen, nextId, envSteps,
                   batch>>
    /\ UNCHANGED <<unlinked, listener>>

----------------------------------------------------------------------------
(* The server handling the mirror's calls *)

Answer(c, st) == (calls \ {c}) \cup {[c EXCEPT !.st = st]}

\* the server performs a set: the topic is created with the call's
\* specification if it is absent, and its value becomes the call's value
ServerSetOk(c) ==
    /\ c \in calls
    /\ c.op = "set"
    /\ c.st = "sent"
    /\ srvTopics[c.path].exists => srvTopics[c.path].spec = c.spec
    /\ srvTopics' = [srvTopics EXCEPT ![c.path] =
                        [exists |-> TRUE, value |-> c.value, spec |-> c.spec]]
    /\ notifs' = IF srvTopics[c.path].exists THEN notifs
                 ELSE Notify(notifs, c.path, "ADDED")
    /\ calls' = Answer(c, "ok")
    /\ UNCHANGED <<pc, files, selActive, mtActive, topics, watching, fsEvents,
                   mtQueue, mtOpen, nextId, unhandled, envSteps, batch, row,
                   last>>
    /\ UNCHANGED <<unlinked, listener>>

\* the server performs a remove: the topic is gone afterwards
ServerRemoveOk(c) ==
    /\ c \in calls
    /\ c.op = "remove"
    /\ c.st = "sent"
    /\ srvTopics' = [srvTopics EXCEPT ![c.path] = NoTopic]
    /\ notifs' = IF srvTopics[c.path].exists
                 THEN Notify(notifs, c.path, "REMOVED")
                 ELSE notifs
    /\ calls' = Answer(c, "ok")
    /\ UNCHANGED <<pc, files, selActive, mtActive, topics, watching, fsEvents,
                   mtQueue, mtOpen, nextId, unhandled, envSteps, batch, row,
                   last>>
    /\ UNCHANGED <<unlinked, listener>>

\* the call fails: the server changes nothing and the promise rejects
ServerFail(c) ==
    /\ c \in calls
    /\ c.st = "sent"
    /\ calls' = Answer(c, "failed")
    /\ UNCHANGED <<pc, files, srvTopics, selActive, mtActive, topics,
                   watching, fsEvents, notifs, mtQueue, mtOpen, nextId,
                   unhandled, envSteps, batch, row, last>>
    /\ UNCHANGED <<unlinked, listener>>

----------------------------------------------------------------------------
Next ==
    \/ AddListenerAck
    \/ ServerSelect
    \/ SelectAck
    \/ BuildResume
    \/ MainResume
    \/ ServerRegisterHandler
    \/ \E p \in Paths, text \in Contents : WriteFile(p, text)
    \/ \E p \in Paths : RemoveFile(p)
    \/ \E p \in Paths : TopicAdded(p)
    \/ \E p \in Paths : TopicRemoved(p)
    \/ \E p \in Paths : TopicDeselected(p)
    \/ \E p \in Paths : SubscriberRequest(p)
    \/ OnUnlink
    \/ OnChange
    \/ OnTopicNotification
    \/ OnMissingTopic
    \/ \E c \in calls : SetTopicResume(c)
    \/ \E c \in calls : UnsetTopicResume(c)
    \/ \E c \in calls : ServerSetOk(c)
    \/ \E c \in calls : ServerRemoveOk(c)
    \/ \E c \in calls : ServerFail(c)

Spec == Init /\ [][Next]_vars

\* the session-property listener on its own
ListenerSpec == Init /\ [][ListenerNext]_vars

----------------------------------------------------------------------------
(* The steps of the handlers, as seen on a pair of states *)

\* this step is the unlink / change handler taking the first watcher event
FsStep(kind) ==
    /\ fsEvents # <<>>
    /\ fsEvents' = Tail(fsEvents)
    /\ Head(fsEvents).kind = kind

\* this step is onMissingTopic taking the first request
MissingStep == mtQueue # <<>> /\ mtQueue' = Tail(mtQueue)

\* this step is onTopicNotification taking the first notification
NotifyStep == notifs # <<>> /\ notifs' = Tail(notifs)

\* the calls this step issued
Issued == calls' \ calls

UnderRoot(p) == Len(p) >= 1 /\ p[1] = "cdn"

----------------------------------------------------------------------------
(* C1 *)

\* C1 (as claimed): whenever the unlink handler has run for a path that was
\* tracked, the path is out of the tracked set from the moment the handler
\* returns, the removal call being in flight or not.
C1_RemovedOnReturn ==
    (last.op = "unlink" /\ last.was) => last.path \notin topics

----------------------------------------------------------------------------
(* C2 *)

\* C2: every request given to onMissingTopic has had proceed() invoked by
\* the end of that turn, whatever setTopic did (file absent, file not JSON,
\* call issued and failing or never answered), and no rejection of a
\* missing-topic attempt is left uncaught.
C2_AlwaysProceeds ==
    /\ mtOpen = 0
    /\ last.op = "missing" => last.proceed
    /\ "missing" \notin unhandled

\* a request whose set call is still unanswered has proceeded
C2_Witness ==
    /\ last.op = "missing"
    /\ last.proceed
    /\ \E c \in calls : c.id = last.call /\ c.st = "sent"

----------------------------------------------------------------------------
(* C3 *)

\* C3: onMissingTopic for a path whose file is absent issues no call (so
\* nothing can later add the path on behalf of this request), leaves the
\* tracked set as it is, proceeds, and logs a warning.
C3_NoFileNoTopic ==
    [][(MissingStep /\ files[Head(mtQueue)] = NoFile)
         => /\ calls' = calls
            /\ nextId' = nextId
            /\ topics' = topics
            /\ last'.op = "missing"
            /\ last'.call = 0
            /\ last'.proceed
            /\ last'.log = "warn"]_vars

C3_Witness ==
    /\ last.op = "missing"
    /\ files[last.path] = NoFile
    /\ last.log = "warn"
    /\ last.call = 0
    /\ last.proceed
    /\ last.path \notin topics
    /\ ~srvTopics[last.path].exists

----------------------------------------------------------------------------
(* C4 *)

\* C4: the change handler, when it issues the set call for p, sends the JSON
\* value of the file as it is at that moment; the server, performing the
\* call, writes exactly that value to topic p; and when the call has
\* resolved and setTopic resumes, p is in the tracked set.
C4_ChangeMirrorsFile ==
    [][/\ (FsStep("change") /\ Issued # {})
          => LET p == Head(fsEvents).path
             IN  /\ ~readFileSync(files, p).threw
                 /\ ~JSONParse(files[p]).threw
                 /\ Issued = {SetCall(nextId', p, JSONParse(files[p]).value,
                                      "change")}
       /\ \A c \in calls :
            (c.op = "set" /\ c.st = "sent"
               /\ [c EXCEPT !.st = "ok"] \in calls')
              => /\ srvTopics'[c.path].exists
                 /\ srvTopics'[c.path].value = c.value
       /\ \A c \in calls :
            (c.op = "set" /\ c.origin = "change" /\ c.st = "ok"
               /\ c \notin calls')
              => c.path \in topics']_vars

\* a changed file has been mirrored: the call resolved, the path is tracked
\* and the topic holds the new content
C4_Witness ==
    /\ last.op = "setDone"
    /\ last.origin = "change"
    /\ last.type = "ok"
    /\ last.path \in topics
    /\ files[last.path] = Text2
    /\ srvTopics[last.path].value = Value2

----------------------------------------------------------------------------
(* C5 *)

\* C5 (as claimed): a change event for a path that is not in the tracked set,
\* the file holding valid JSON, makes the mirror set topic p to that value
\* with the removal policy "when subscriptions < 1 for 1m".
C5_ChangeCreatesUntracked ==
    [][(FsStep("change") /\ Head(fsEvents).path \notin topics
          /\ setTopicBegin(files, Head(fsEvents).path).issue)
         => LET p == Head(fsEvents).path
            IN  Issued = {SetCall(nextId', p, JSONParse(files[p]).value,
                                  "change")}]_vars

\* C5 (amended): a change event for a path that is not in the tracked set is
\* ignored: the file is not read, no call is issued, and the tracked set and
\* the server's topics stay as they are.  For a path that is in the tracked
\* set, the file holding valid JSON, the mirror sets topic p to that value
\* with the removal policy "when subscriptions < 1 for 1m".
C5_ChangeOnlyForTracked ==
    [][FsStep("change")
         => LET p == Head(fsEvents).path
            IN  /\ p \notin topics
                     => /\ calls' = calls
                        /\ nextId' = nextId
                        /\ topics' = topics
                        /\ srvTopics' = srvTopics
                        /\ ~last'.read
                        /\ last'.log = "none"
                /\ (p \in topics /\ files[p] \in {Text1, Text2})
                     => /\ Issued = {SetCall(nextId', p,
                                             JSONParse(files[p]).value,
                                             "change")}
                        /\ \A c \in Issued :
                             c.spec.REMOVAL = "when subscriptions < 1 for 1m"
                        /\ topics' = topics]_vars

\* the scenario: {cdn/a.json} tracked, cdn/b.json holding {"x":1} changes,
\* and the handler has returned with nothing done
C5_Witness ==
    /\ last.op = "change"
    /\ last.path = PathB
    /\ ~last.was
    /\ last.call = 0
    /\ files[PathB] = Text1
    /\ topics = {PathA}
    /\ calls = {}
    /\ ~srvTopics[PathB].exists

----------------------------------------------------------------------------
(* C6 *)

\* C6 (as claimed): whenever no call is in flight and no notification is
\* undelivered, every tracked path exists as a topic on the server.
C6_TrackedExist ==
    (calls = {} /\ notifs = <<>>)
      => \A p \in topics : srvTopics[p].exists

----------------------------------------------------------------------------
(* C7 *)

\* C7: no turn of the mirror concerns a path outside the root: no handler is
\* given one (so none reads its file), no call in flight names one, and the
\* tracked set holds none.
C7_NothingOutsideRoot ==
    /\ \A p \in topics : UnderRoot(p)
    /\ \A c \in calls : UnderRoot(c.path)
    /\ last.op # "none" => UnderRoot(last.path)
    /\ \A i \in 1..Len(fsEvents) : UnderRoot(fsEvents[i].path)
    /\ \A i \in 1..Len(notifs) : UnderRoot(notifs[i].path)
    /\ \A i \in 1..Len(mtQueue) : UnderRoot(mtQueue[i])

\* the mirror is fully registered and has run, while outside the root a file
\* was rewritten and a topic created
C7_Witness ==
    /\ pc = "running"
    /\ mtActive
    /\ files[PathX] = Text2
    /\ srvTopics[PathX].exists
    /\ last.op = "notify"
    /\ topics = {PathA}

----------------------------------------------------------------------------
(* C8 *)

\* C8: when the unlink handler runs for p, its removal call completes
\* (resolved or rejected), and the unlink handler runs for p again with no
\* other turn of the mirror in between, the second run issues no call (one
\* removal call in all), raises nothing, and leaves the tracked set, without
\* p, as it was.  The code keeps p tracked when the first call is rejected,
\* and the second run then issues a second removal call.
C8_SecondUnlinkIsNoOp ==
    [][(row.stage = 2 /\ row'.stage = 3)
         => /\ FsStep("unlink")
            /\ calls' = calls
            /\ nextId' = nextId
            /\ row'.call = 0
            /\ topics' = topics
            /\ row.path \notin topics'
            /\ unhandled' = unhandled]_vars

----------------------------------------------------------------------------
(* C9 *)

\* C9: onTopicNotification for p leaves p in the tracked set when the type
\* is ADDED or SELECTED and out of it when the type is REMOVED or
\* DESELECTED, changes the membership of no other path and issues no call;
\* and when the last notification of the initial SELECTED batch has been
\* handled, nothing else having touched the set, the tracked set is exactly
\* the set of topics the batch reported.
C9_NotificationEffect ==
    [][NotifyStep
         => LET n == Head(notifs)
            IN  /\ n.type \in {"ADDED", "SELECTED"} => n.path \in topics'
                /\ n.type \in {"REMOVED", "DESELECTED"}
                     => n.path \notin topics'
                /\ \A q \in Paths \ {n.path} :
                     (q \in topics') <=> (q \in topics)
                /\ calls' = calls
                /\ nextId' = nextId
                /\ unhandled' = unhandled
                /\ (n.type = "SELECTED" /\ batch'.left = 0 /\ nextId = 0)
                     => topics' = batch'.reported]_vars

\* the scenario: the set was empty, the batch reported cdn/a.json alone
C9_Witness ==
    /\ last.op = "notify"
    /\ last.type = "SELECTED"
    /\ ~last.was
    /\ batch = [reported |-> {PathA}, left |-> 0]
    /\ topics = {PathA}
    /\ nextId = 0

----------------------------------------------------------------------------
(* C10 *)

\* the file of p exists and is not valid JSON
Malformed(p) == files[p] # NoFile /\ JSONParse(files[p]).threw

\* what the claim says of a turn that meets a malformed file
AbandonedWithError ==
    /\ calls' = calls
    /\ nextId' = nextId
    /\ srvTopics' = srvTopics
    /\ topics' = topics
    /\ unhandled' = unhandled
    /\ last'.call = 0
    /\ last'.log = "error"

\* C10 (as claimed): a change event or a missing-topic request for a path
\* whose file is malformed issues no call, leaves the server's topics and
\* the tracked set as they are, and logs the error.
C10_MalformedLogged ==
    [][/\ (FsStep("change") /\ Malformed(Head(fsEvents).path))
          => AbandonedWithError
       /\ (MissingStep /\ Malformed(Head(mtQueue)))
          => AbandonedWithError]_vars

\* C10 (amended): the same, for a missing-topic request and for a change
\* event of a tracked path; a change event of an untracked path is ignored
\* before the file is read, so nothing is logged.
C10_MalformedLoggedWhenRead ==
    [][/\ (FsStep("change") /\ Malformed(Head(fsEvents).path)
            /\ Head(fsEvents).path \in topics)
          => AbandonedWithError
       /\ (MissingStep /\ Malformed(Head(mtQueue)))
          => AbandonedWithError
       /\ (FsStep("change") /\ Malformed(Head(fsEvents).path)
            /\ Head(fsEvents).path \notin topics)
          => /\ calls' = calls
             /\ srvTopics' = srvTopics
             /\ topics' = topics
             /\ unhandled' = unhandled
             /\ last'.log = "none"]_vars

\* a tracked file was overwritten with text that is no JSON: the error is
\* logged and the topic still holds the earlier value
C10_Witness ==
    /\ last.op = "change"
    /\ last.was
    /\ last.log = "error"
    /\ last.call = 0
    /\ files[last.path] = TextBad
    /\ last.path \in topics
    /\ srvTopics[last.path].value = Value1
    /\ calls = {}

----------------------------------------------------------------------------
(* C11: whenever a set call or a remove call issued by a handler fails, the *)
(* failure is caught and logged at error level inside the mirror and no     *)
(* rejected promise is left unhandled.  The code does this for set calls    *)
(* (the try/catch of setTopic) but not for remove calls: unsetTopic has no  *)
(* catch and the unlink handler does not await it.                          *)
C11_FailuresCaught ==
    /\ unhandled = {}
    /\ (last.op \in {"setDone", "removeDone"} /\ last.type = "failed")
           => last.log = "error"

----------------------------------------------------------------------------
(* C12: every set call the mirror issues, from the change handler and from  *)
(* the missing-topic handler alike, carries a JSON topic specification      *)
(* whose removal policy is exactly "when subscriptions < 1 for 1m"; the     *)
(* mirror's own remove calls come from the unlink handler only, never from  *)
(* a subscriber count.                                                      *)
C12_RemovalPolicyOnEverySet ==
    \A c \in calls :
        /\ c.op = "set" =>
              /\ c.origin \in {"change", "missing"}
              /\ c.spec.type = "JSON"
              /\ c.spec.REMOVAL = "when subscriptions < 1 for 1m"
        /\ c.op = "remove" => c.origin = "unlink"

\* a set call of the change handler and one of the missing-topic handler
\* are in flight together
C12_Witness ==
    \E c, d \in calls :
        /\ c.op = "set" /\ c.origin = "change" /\ c.st = "sent"
        /\ d.op = "set" /\ d.origin = "missing" /\ d.st = "sent"

----------------------------------------------------------------------------
(* C13: the session-property listener issues a subscribe call for session s *)
(* to the selector cdn/trader-news.json exactly in the onSessionOpen of s   *)
(* whose properties hold a non-empty $Roles and a non-empty $Principal with *)
(* TRADER among the parsed roles; no other callback issues a subscribe      *)
(* call, so a session without a principal, or one that gets the role after  *)
(* opening, is never subscribed.                                            *)
C13_SubscribesExactlyOnQualifiedOpen ==
    [][\A s \in Sessions :
         LET opened == /\ listener.sess[s].st = "unseen"
                       /\ listener'.sess[s].st = "open"
             props == listener'.sess[s].props
             qualifies == /\ props.Roles \notin {Undefined, ""}
                          /\ props.Principal \notin {Undefined, ""}
                          /\ "TRADER" \in stringToRoles(props.Roles)
         IN  listener'.subs[s] =
                 IF opened /\ qualifies
                 THEN Append(listener.subs[s], <<"cdn", "trader-news.json">>)
                 ELSE listener.subs[s]]_vars

\* s1 opened as a trader without a principal and got one later: it is not
\* subscribed; s2 opened as a trader with a principal and is subscribed
C13_Witness ==
    /\ listener.last = [op |-> "event", session |-> "s1",
                        subscribed |-> FALSE, log |-> "info"]
    /\ listener.sess["s1"] =
           [st |-> "open",
            props |-> [Roles |-> RolesBoth, Principal |-> "alice"]]
    /\ listener.subs["s1"] = <<>>
    /\ listener.sess["s2"].st = "open"
    /\ listener.subs["s2"] = <<listenerSelector>>

----------------------------------------------------------------------------
(* C14: the mirror never has two remove calls for the same path in flight, *)
(* and never issues a set call from a missing-topic request for a path     *)
(* that is in the tracked set.  The code checks membership in the unlink   *)
(* handler only, against a set unsetTopic updates after its await, and not *)
(* at all in handleMissingTopic.                                           *)
C14_NoDuplicates ==
    /\ \A c, d \in calls :
           (c.op = "remove" /\ d.op = "remove" /\ c.path = d.path) => c = d
    /\ (last.op = "missing" /\ last.was) => last.call = 0

----------------------------------------------------------------------------
(* C15: the watcher is created and the missing-topic handler registered    *)
(* only after the server has acknowledged the notification listener and    *)
(* the selector registration; so no file event is queued or handled, no    *)
(* missing-topic request is queued or handled and no call is issued before *)
(* that acknowledgement.                                                   *)
C15_InitOrdered ==
    /\ pc \in {"build", "main", "running"} => selActive
    /\ watching => pc \in {"main", "running"}
    /\ (\/ mtActive
        \/ fsEvents # <<>>
        \/ mtQueue # <<>>
        \/ last.op \in {"unlink", "change", "missing", "setDone",
                         "removeDone"}
        \/ nextId > 0
        \/ calls # {})
          => (pc = "running" /\ watching)

\* before the acknowledgement of the selector registration: a file under
\* the root was rewritten and the change did not reach the mirror, while a
\* notification of the registered selector was already delivered
C15_Witness ==
    /\ pc = "select"
    /\ selActive
    /\ files[PathA] = Text2
    /\ last.op = "notify"
    /\ ~watching
    /\ fsEvents = <<>>
    /\ mtQueue = <<>>

----------------------------------------------------------------------------
(* C16: once the file of a path p under the root is deleted, its unlink    *)
(* event has been handled with no file event or missing-topic request for  *)
(* p handled or pending after it, and no call or notification is           *)
(* outstanding (none having failed), no topic the mirror created remains   *)
(* at p.  Stated for the paths that had no topic at the start, where a     *)
(* topic with the mirror's specification can only come from a set call of  *)
(* the mirror.                                                             *)
C16_DeletedFileLeavesNoTopic ==
    \A p \in Paths :
        (/\ UnderRoot(p)
         /\ ~InitTopics[p].exists
         /\ p \in unlinked
         /\ files[p] = NoFile
         /\ calls = {}
         /\ notifs = <<>>
         /\ fsEvents = <<>>
         /\ mtQueue = <<>>
         /\ unhandled = {})
            => ~(srvTopics[p].exists /\ srvTopics[p].spec = defaultTopicSpec)

----------------------------------------------------------------------------
(* C17: a call that never completes blocks only the continuation of the    *)
(* handler that issued it: whatever calls are in flight, a pending file    *)
(* event, notification or missing-topic request can be handled, and such a *)
(* turn can issue a call of its own and change the tracked set.            *)
C17_StalledCallBlocksOnlyItself ==
    /\ fsEvents # <<>> => ENABLED (OnUnlink \/ OnChange)
    /\ notifs # <<>> => ENABLED OnTopicNotification
    /\ mtQueue # <<>> => ENABLED OnMissingTopic
    /\ \A c \in calls : c.st # "sent" =>
           ENABLED (SetTopicResume(c) \/ UnsetTopicResume(c))

\* call 1 is still unanswered; after it an unlink turn issued call 2, and
\* then a notification changed the tracked set
C17_Witness ==
    /\ \E c, d \in calls :
          /\ c.id = 1 /\ c.st = "sent"
          /\ d.id = 2 /\ d.op = "remove"
    /\ last.op = "notify"
    /\ last.type \in {"ADDED", "REMOVED"}
    /\ last.was # (last.path \in topics)

----------------------------------------------------------------------------
(* C18: the turn that handles a missing-topic request invokes proceed()    *)
(* itself, before the set call it started is answered: in that turn the    *)
(* tracked set and the server's topics do not change, and the call it      *)
(* issued, for the requested path, is still unanswered when the turn ends. *)
C18_ProceedsBeforeCompletion ==
    [][MissingStep =>
          /\ last'.op = "missing"
          /\ last'.path = Head(mtQueue)
          /\ last'.proceed
          /\ topics' = topics
          /\ srvTopics' = srvTopics
          /\ \A c \in Issued :
                /\ c.op = "set"
                /\ c.path = Head(mtQueue)
                /\ c.id = last'.call
                /\ c.st = "sent"]_vars

\* right after proceed(): the request's set call is unanswered, the path is
\* not tracked and the topic does not exist
C18_Witness ==
    /\ last.op = "missing"
    /\ last.proceed
    /\ \E c \in calls : c.id = last.call /\ c.st = "sent" /\ c.op = "set"
    /\ last.path \notin topics
    /\ ~srvTopics[last.path].exists

----------------------------------------------------------------------------
(* C19: the mirror's own operations change the tracked set only when their *)
(* call has completed: no handler turn changes it; the continuation of a   *)
(* set call that resolved adds the call's path, the continuation of a      *)
(* remove call that resolved deletes it, the continuation of a call that   *)
(* failed leaves the set as it is, and a call that is unanswered has no    *)
(* continuation step.  Every other change of the set is a notification.    *)
C19_TrackedSetChangesOnCompletion ==
    [][/\ (FsStep("unlink") \/ FsStep("change") \/ MissingStep)
             => topics' = topics
       /\ \A c \in calls :
             (\A d \in calls' : d.id # c.id) =>
             /\ c.st # "sent"
             /\ topics' = IF c.st = "failed" THEN topics
                          ELSE IF c.op = "set" THEN topics \cup {c.path}
                          ELSE topics \ {c.path}
       /\ topics' # topics =>
             (NotifyStep \/ \E c \in calls : \A d \in calls' : d.id # c.id)]_vars

\* a remove call failed: its continuation has run and the path is still
\* tracked, while a set call for an untracked path is unanswered
C19_Witness ==
    /\ last.op = "removeDone"
    /\ last.type = "failed"
    /\ last.path \in topics
    /\ \E c \in calls : c.op = "set" /\ c.st = "sent" /\ c.path \notin topics

====
